---- MODULE Spec2Model ----
(***************************************************************************)
(* xurls: extraction of URLs from plain text with regular expressions.     *)
(*                                                                         *)
(* The module models xurls.go: the pattern constants, the pattern builders *)
(* strictExp and relaxedExp, the lazily built matchers Strict and Relaxed  *)
(* (sync.Once), and StrictMatchingScheme.  A pattern is a syntax tree; the *)
(* operator Match gives the matches of a tree at a position of a text in   *)
(* the priority order of a backtracking search, so that both modes of      *)
(* regexp.Regexp are defined: leftmost-first takes the first, Longest()    *)
(* the longest.                                                            *)
(*                                                                         *)
(* A text is a string of the characters below.  Three characters stand for *)
(* code points outside ASCII, which a module cannot spell:                 *)
(*    "^"  a letter of allowedUcsChar, such as U+00E9                      *)
(*    "<"  a punctuation mark of allowedUcsChar, such as U+3002            *)
(*    "|"  a private use code point, such as U+E000                        *)
(* so the ASCII characters ^, < and | themselves are not in the alphabet.  *)
(***************************************************************************)
EXTENDS Integers, Sequences, FiniteSets, TLC

---------------------------------------------------------------------------
(* Characters *)

Lower == {"a", "b", "c", "d", "e", "f", "g", "h", "i", "j", "k", "l", "m", "n", "o", "p", "q", "r", "s", "t", "u", "v", "w", "x", "y", "z"}
Upper == {"A", "B", "C", "D", "E", "F", "G", "H", "I", "J", "K", "L", "M", "N", "O", "P", "Q", "R", "S", "T", "U", "V", "W", "X", "Y", "Z"}
Digit == {"0", "1", "2", "3", "4", "5", "6", "7", "8", "9"}
HexDigit == Digit \cup {"a", "b", "c", "d", "e", "f", "A", "B", "C", "D", "E", "F"}

UcsLetter == "^"
UcsPunct == "<"
PrivateUse == "|"
NonASCII == {UcsLetter, UcsPunct, PrivateUse}

\* utf8.RuneSelf: a string's first byte is below it iff its first character is ASCII
IsASCIIChar(c) == c \notin NonASCII

\* strings.ToLower on one character, as (?i) folds it
ToLowerChar ==
  [c \in Upper |->
     CASE c = "A" -> "a" [] c = "B" -> "b" [] c = "C" -> "c" [] c = "D" -> "d"
       [] c = "E" -> "e" [] c = "F" -> "f" [] c = "G" -> "g" [] c = "H" -> "h"
       [] c = "I" -> "i" [] c = "J" -> "j" [] c = "K" -> "k" [] c = "L" -> "l"
       [] c = "M" -> "m" [] c = "N" -> "n" [] c = "O" -> "o" [] c = "P" -> "p"
       [] c = "Q" -> "q" [] c = "R" -> "r" [] c = "S" -> "s" [] c = "T" -> "t"
       [] c = "U" -> "u" [] c = "V" -> "v" [] c = "W" -> "w" [] c = "X" -> "x"
       [] c = "Y" -> "y" [] c = "Z" -> "z"]

Ch(t, i) == SubSeq(t, i, i)

\* t[lo..hi] as a case-insensitive group (?i)...(?-i) reads it
RECURSIVE FoldRange(_, _, _)
FoldRange(t, lo, hi) ==
  IF lo > hi THEN ""
  ELSE IF lo = hi THEN (IF Ch(t, lo) \in Upper THEN ToLowerChar[Ch(t, lo)] ELSE Ch(t, lo))
  ELSE LET mid == (lo + hi) \div 2
       IN FoldRange(t, lo, mid) \o FoldRange(t, mid + 1, hi)

Fold(t) == IF \E i \in 1..Len(t) : Ch(t, i) \in Upper THEN FoldRange(t, 1, Len(t)) ELSE t

---------------------------------------------------------------------------
(* Pattern syntax: the constructs of regexp/syntax that xurls.go uses *)

Lit(s) == [op |-> "lit", s |-> s]                       \* a quoted literal
Cls(set) == [op |-> "cls", set |-> set]                 \* [...]
Bnd == [op |-> "bnd"]                                   \* \b
Cat(args) == [op |-> "cat", args |-> args]              \* concatenation
Alt(args) == [op |-> "alt", args |-> args]              \* a|b|...
Star(a) == [op |-> "rep", a |-> a, min |-> 0, max |-> -1]       \* a*
Plus(a) == [op |-> "rep", a |-> a, min |-> 1, max |-> -1]       \* a+
Opt(a) == [op |-> "rep", a |-> a, min |-> 0, max |-> 1]         \* a?
Rep(a, min, max) == [op |-> "rep", a |-> a, min |-> min, max |-> max]  \* a{min,max}
FoldCase(a) == [op |-> "fold", a |-> a]                 \* (?i)a(?-i)
\* (?:s1|s2|...), each quoted; set is the strings as a set
AnyOfLits(strs) == [op |-> "anyof", strs |-> strs, set |-> {strs[k] : k \in 1..Len(strs)}]

Range(s) == {s[k] : k \in 1..Len(s)}

\* a and then what b adds to it: a list of offsets in priority order, each once
Merge(a, b) == a \o SelectSeq(b, LAMBDA e : e \notin Range(a))

\* \w of regexp/syntax: ASCII only
IsWordChar(c) == c \in Lower \cup Upper \cup Digit \cup {"_"}

\* \b at offset i of t: exactly one side is a word character
AtWordBoundary(t, i) ==
  LET before == i >= 1 /\ IsWordChar(Ch(t, i))
      after == i < Len(t) /\ IsWordChar(Ch(t, i + 1))
  IN before # after

HasPrefixAt(t, i, s) == i + Len(s) <= Len(t) /\ SubSeq(t, i + 1, i + Len(s)) = s

\* how many characters of t from offset i on are in set
RunLength(t, i, set) ==
  LET stop == {j \in (i + 1)..Len(t) : Ch(t, j) \notin set}
  IN IF stop = {} THEN Len(t) - i ELSE (CHOOSE j \in stop : \A k \in stop : j <= k) - i - 1

(* Match(re, t, i): the offsets at which a match of re that starts at       *)
(* offset i of t can end, in the order a backtracking search finds them     *)
(* (alternatives left to right, repetitions greedy), each offset once.      *)
RECURSIVE Match(_, _, _), MatchEach(_, _, _, _, _), MatchCat(_, _, _, _),
          MatchAlt(_, _, _, _), MatchRep(_, _, _, _, _), MatchRepEach(_, _, _, _, _, _)
Match(re, t, i) ==
  CASE re.op = "lit" -> IF HasPrefixAt(t, i, re.s) THEN <<i + Len(re.s)>> ELSE <<>>
    [] re.op = "cls" -> IF i < Len(t) /\ Ch(t, i + 1) \in re.set THEN <<i + 1>> ELSE <<>>
    [] re.op = "bnd" -> IF AtWordBoundary(t, i) THEN <<i>> ELSE <<>>
    [] re.op = "anyof" ->
         \* the alternatives that are a prefix of the rest of t, in the order of the list
         LET hitLens == {n \in 1..(Len(t) - i) : SubSeq(t, i + 1, i + n) \in re.set}
             hit == IF hitLens = {} THEN <<>>
                    ELSE SelectSeq(re.strs, LAMBDA s : Len(s) \in hitLens /\ HasPrefixAt(t, i, s))
         IN IF hit = <<>> THEN <<>>
            ELSE IF Len(hit) = 1 THEN <<i + Len(hit[1])>>
            ELSE MatchAlt([k \in 1..Len(hit) |-> Lit(hit[k])], 1, t, i)
    [] re.op = "fold" -> Match(re.a, Fold(t), i)
    [] re.op = "cat" -> MatchCat(re.args, 1, t, <<i>>)
    [] re.op = "alt" -> MatchAlt(re.args, 1, t, i)
    [] re.op = "rep" ->
         IF re.a.op = "cls"
         THEN \* a run of one class: the longest first, then one character less each time
              LET run == RunLength(t, i, re.a.set)
                  most == IF re.max = -1 \/ run < re.max THEN run ELSE re.max
              IN IF most < re.min THEN <<>>
                 ELSE [k \in 1..(most - re.min + 1) |-> i + most - k + 1]
         ELSE MatchRep(re, t, i, 0, <<>>)

\* re from each of the offsets starts[lo..hi] in turn
MatchEach(re, t, starts, lo, hi) ==
  IF lo > hi THEN <<>>
  ELSE IF lo = hi THEN Match(re, t, starts[lo])
  ELSE LET mid == (lo + hi) \div 2
       IN Merge(MatchEach(re, t, starts, lo, mid), MatchEach(re, t, starts, mid + 1, hi))

MatchCat(args, k, t, starts) ==
  IF k > Len(args) \/ starts = <<>> THEN starts
  ELSE MatchCat(args, k + 1, t, MatchEach(args[k], t, starts, 1, Len(starts)))

MatchAlt(args, k, t, i) ==
  IF k > Len(args) THEN <<>>
  ELSE Merge(Match(args[k], t, i), MatchAlt(args, k + 1, t, i))

(* A greedy repetition after n iterations, at offset i, with the offsets    *)
(* acc found so far: one more iteration is tried first, stopping here comes *)
(* last.  In an unbounded repetition (max = -1) an offset already in acc    *)
(* has had everything after it found.                                       *)
MatchRep(re, t, i, n, acc) ==
  IF re.max = -1 /\ n >= re.min /\ i \in Range(acc) THEN acc
  ELSE LET more == IF re.max = -1 \/ n < re.max
                   THEN SelectSeq(Match(re.a, t, i), LAMBDA e : e > i) ELSE <<>>
           acc2 == MatchRepEach(re, t, more, 1, n + 1, acc)
       IN IF n >= re.min /\ i \notin Range(acc2) THEN Append(acc2, i) ELSE acc2

MatchRepEach(re, t, starts, k, n, acc) ==
  IF k > Len(starts) THEN acc
  ELSE MatchRepEach(re, t, starts, k + 1, n, MatchRep(re, t, starts[k], n, acc))

---------------------------------------------------------------------------
(* The data tables *)

\* allowedUcsChar and allowedUcsCharMinusPunc, by the characters that stand for them
allowedUcsChar == {UcsLetter, UcsPunct}
allowedUcsCharMinusPunc == {UcsLetter}

\* TLDs: ASCII entries first, then the entries outside ASCII ("^^" stands for one)
TLDs == <<"co", "com", "org", "tel", "uk", "^^">>
PseudoTLDs == <<"local", "onion">>

Schemes ==
  << "aaa", "aaas", "about", "acap", "acct", "acr", "adiumxtra", "afp", "afs", "aim",
     "appdata", "apt", "attachment", "aw", "barion", "beshare", "bitcoin", "blob",
     "bolo", "browserext", "callto", "cap", "chrome", "chrome-extension", "cid", "coap",
     "coap+tcp", "coap+ws", "coaps", "coaps+tcp", "coaps+ws", "com-eventbrite-attendee",
     "content", "conti", "crid", "cvs", "data", "dav", "diaspora", "dict", "dis",
     "dlna-playcontainer", "dlna-playsingle", "dns", "dntp", "dtn", "dvb", "ed2k",
     "example", "facetime", "fax", "feed", "feedready", "file", "filesystem", "finger",
     "fish", "ftp", "geo", "gg", "git", "gizmoproject", "go", "gopher", "graph", "gtalk",
     "h323", "ham", "hcp", "http", "https", "hxxp", "hxxps", "hydrazone", "iax", "icap",
     "icon", "im", "imap", "info", "iotdisco", "ipn", "ipp", "ipps", "irc", "irc6",
     "ircs", "iris", "iris.beep", "iris.lwz", "iris.xpc", "iris.xpcs", "isostore",
     "itms", "jabber", "jar", "jms", "keyparc", "lastfm", "ldap", "ldaps", "lvlt",
     "magnet", "mailserver", "mailto", "maps", "market", "message",
     "microsoft.windows.camera", "microsoft.windows.camera.multipicker",
     "microsoft.windows.camera.picker", "mid", "mms", "modem", "mongodb", "moz",
     "ms-access", "ms-browser-extension", "ms-drive-to", "ms-enrollment", "ms-excel",
     "ms-gamebarservices", "ms-gamingoverlay", "ms-getoffice", "ms-help", "ms-infopath",
     "ms-inputapp", "ms-lockscreencomponent-config", "ms-media-stream-id",
     "ms-mixedrealitycapture", "ms-officeapp", "ms-people", "ms-project",
     "ms-powerpoint", "ms-publisher", "ms-restoretabcompanion", "ms-search-repair",
     "ms-secondary-screen-controller", "ms-secondary-screen-setup", "ms-settings",
     "ms-settings-airplanemode", "ms-settings-bluetooth", "ms-settings-camera",
     "ms-settings-cellular", "ms-settings-cloudstorage",
     "ms-settings-connectabledevices", "ms-settings-displays-topology",
     "ms-settings-emailandaccounts", "ms-settings-language", "ms-settings-location",
     "ms-settings-lock", "ms-settings-nfctransactions", "ms-settings-notifications",
     "ms-settings-power", "ms-settings-privacy", "ms-settings-proximity",
     "ms-settings-screenrotation", "ms-settings-wifi", "ms-settings-workplace", "ms-spd",
     "ms-sttoverlay", "ms-transit-to", "ms-useractivityset", "ms-virtualtouchpad",
     "ms-visio", "ms-walk-to", "ms-whiteboard", "ms-whiteboard-cmd", "ms-word", "msnim",
     "msrp", "msrps", "mtqp", "mumble", "mupdate", "mvn", "news", "nfs", "ni", "nih",
     "nntp", "notes", "ocf", "oid", "onenote", "onenote-cmd", "opaquelocktoken", "pack",
     "palm", "paparazzi", "pkcs11", "platform", "pop", "pres", "prospero", "proxy",
     "pwid", "psyc", "qb", "query", "redis", "rediss", "reload", "res", "resource",
     "rmi", "rsync", "rtmfp", "rtmp", "rtsp", "rtsps", "rtspu", "secondlife", "service",
     "session", "sftp", "sgn", "shttp", "sieve", "sip", "sips", "skype", "smb", "sms",
     "smtp", "snews", "snmp", "soap.beep", "soap.beeps", "soldat", "spiffe", "spotify",
     "ssh", "steam", "stun", "stuns", "submit", "svn", "tag", "teamspeak", "tel",
     "teliaeid", "telnet", "tftp", "things", "thismessage", "tip", "tn3270", "tool",
     "turn", "turns", "tv", "udp", "unreal", "urn", "ut2004", "v-event", "vemmi",
     "ventrilo", "videotex", "vnc", "view-source", "wais", "webcal", "wpid", "ws", "wss",
     "wtai", "wyciwyg", "xcon", "xcon-userid", "xfire", "xmlrpc.beep", "xmlrpc.beeps",
     "xmpp", "xri", "ymsgr", "z39.50", "z39.50r", "z39.50s" >>

SchemesNoAuthority ==
  <<"bitcoin", "cid", "file", "magnet", "mailto", "mid", "sms", "tel", "xmpp">>

SchemesUnofficial ==
  <<"gemini", "jdbc", "moz-extension", "postgres", "postgresql", "slack", "zoommtg",
    "zoomus">>

---------------------------------------------------------------------------
(* The pattern constants of xurls.go *)

midSubDelimChar == {"!", "$", "&", "'", "*", "+", ",", ";", "="}
endSubDelimChar == {"$", "&", "+", "="}
midIPathSegmentChar ==
  Lower \cup Upper \cup Digit \cup {"-", ".", "_", "~"} \cup {"%"} \cup midSubDelimChar
    \cup {":", "@"} \cup allowedUcsChar
endIPathSegmentChar ==
  Lower \cup Upper \cup Digit \cup {"-", "_", "~"} \cup {"%"} \cup endSubDelimChar
    \cup allowedUcsCharMinusPunc
iPrivateChar == {PrivateUse}
midIChar == {"/", "?", "#", "\\"} \cup midIPathSegmentChar \cup iPrivateChar
\* endIChar built from the mid-segment class: punctuation allowed in final position
endICharWithPunct == {"/", "#"} \cup midIPathSegmentChar \cup iPrivateChar
endIChar == {"/", "#"} \cup endIPathSegmentChar \cup iPrivateChar

\* a group whose closing delimiter is optional
wellGroupUnclosed(open, close) ==
  Cat(<<Lit(open),
        Star(Alt(<<Cls(midIChar), Cat(<<Lit(open), Star(Cls(midIChar)), Lit(close)>>)>>)),
        Opt(Lit(close))>>)
wellGroup(open, close) ==
  Cat(<<Lit(open),
        Star(Alt(<<Cls(midIChar), Cat(<<Lit(open), Star(Cls(midIChar)), Lit(close)>>)>>)),
        Lit(close)>>)
wellParen == wellGroup("(", ")")
wellBrack == wellGroup("[", "]")
wellBrace == wellGroup("{", "}")
wellAll == <<wellParen, wellBrack, wellBrace>>
pathCont == Plus(Cat(<<Star(Cls(midIChar)), Alt(wellAll \o <<Cls(endIChar)>>)>>))

letter == Lower \cup Upper \cup {UcsLetter}
mark == {}
number == Digit
iriChar == letter \cup mark \cup number
iri == Cat(<<Cls(iriChar), Opt(Cat(<<Star(Cls(iriChar \cup {"-"})), Cls(iriChar)>>))>>)
domain == Plus(Cat(<<iri, Lit(".")>>))
\* an octet that is any numeral of one to three digits
octetAnyDigits == Rep(Cls(Digit), 1, 3)
octet ==
  Alt(<<Cat(<<Lit("25"), Cls({"0", "1", "2", "3", "4", "5"})>>),
        Cat(<<Lit("2"), Cls({"0", "1", "2", "3", "4"}), Cls(Digit)>>),
        Cat(<<Lit("1"), Rep(Cls(Digit), 2, 2)>>),
        Cat(<<Cls(Digit \ {"0"}), Cls(Digit)>>),
        Cls(Digit)>>)
ipv4Addr == Cat(<<Bnd, octet, Lit("."), octet, Lit("."), octet, Lit("."), octet, Bnd>>)

h16 == Rep(Cls(HexDigit), 1, 4)
colonH16 == Cat(<<Lit(":"), h16>>)
h16Colon == Cat(<<h16, Lit(":")>>)
ipv6Octet ==
  Alt(<<Cat(<<Lit("25"), Cls({"0", "1", "2", "3", "4", "5"})>>),
        Cat(<<Opt(Alt(<<Cat(<<Lit("2"), Cls({"0", "1", "2", "3", "4"})>>),
                        Cat(<<Lit("1"), Cls(Digit)>>),
                        Cls(Digit \ {"0"})>>)),
              Cls(Digit)>>)>>)
ipv6Head ==
  Alt(<<Cat(<<h16Colon,
     Alt(<<Cat(<<h16Colon,
        Alt(<<Cat(<<h16Colon,
           Alt(<<Cat(<<h16Colon,
              Opt(Alt(<<Cat(<<h16Colon, Rep(Cls(HexDigit), 0, 4)>>), colonH16>>))>>),
                 Rep(colonH16, 0, 2)>>)>>),
              Rep(colonH16, 0, 3)>>)>>),
           Rep(colonH16, 0, 4)>>)>>),
        Cat(<<Lit(":"), Rep(colonH16, 0, 5)>>)>>)
ipv6Tail ==
  Alt(<<Rep(colonH16, 2, 2),
        Cat(<<Lit(":"), ipv6Octet, Rep(Cat(<<Lit("."), ipv6Octet>>), 3, 3)>>)>>)
ipv6Addr ==
  Alt(<<Cat(<<ipv6Head, ipv6Tail>>),
        Cat(<<Alt(<<Rep(h16Colon, 1, 6), Lit(":")>>), Lit(":"), h16>>),
        Cat(<<Rep(h16Colon, 7, 7), Lit(":")>>)>>)
ipAddr == Alt(<<ipv4Addr, ipv6Addr>>)
port == Opt(Cat(<<Lit(":"), Star(Cls(Digit))>>))

\* anyOf: (?:s1|s2|...) with every string quoted; of no string, (?:), the empty pattern
anyOf(strs) == IF strs = <<>> THEN Cat(<<>>) ELSE AnyOfLits(strs)

AnyScheme ==
  Alt(<<Cat(<<Cls(Lower \cup Upper), Star(Cls(Lower \cup Upper \cup {".", "-", "+"})),
              Lit("://")>>),
        Cat(<<anyOf(SchemesNoAuthority), Lit(":")>>)>>)

---------------------------------------------------------------------------
(* The pattern builders *)

schemes ==
  Alt(<<Cat(<<Alt(<<anyOf(Schemes), anyOf(SchemesUnofficial)>>), Lit("://")>>),
        Cat(<<anyOf(SchemesNoAuthority), Lit(":")>>)>>)

strictExp == Cat(<<FoldCase(schemes), pathCont>>)

\* One iteration of the loop of relaxedExp over the table, from the loop state
\* st = [i, ascii, unicode, done]: the first entry whose first byte is
\* utf8.RuneSelf or more splits the table and ends the loop
PartitionStep(tlds, st) ==
  IF st.i > Len(tlds) THEN [st EXCEPT !.done = TRUE]
  ELSE IF ~IsASCIIChar(Ch(tlds[st.i], 1))
  THEN [i |-> st.i, ascii |-> SubSeq(tlds, 1, st.i - 1),
        unicode |-> SubSeq(tlds, st.i, Len(tlds)), done |-> TRUE]
  ELSE [st EXCEPT !.i = @ + 1]

\* var asciiTLDs, unicodeTLDs []string: both empty until the loop sets them
NoSplit == [i |-> 1, ascii |-> <<>>, unicode |-> <<>>, done |-> FALSE]

RECURSIVE PartitionLoop(_, _)
PartitionLoop(tlds, st) ==
  IF st.done THEN st ELSE PartitionLoop(tlds, PartitionStep(tlds, st))

asciiTLDs(tlds) == PartitionLoop(tlds, NoSplit).ascii
unicodeTLDs(tlds) == PartitionLoop(tlds, NoSplit).unicode

punycode == Cat(<<Lit("xn--"), Plus(Cls(Lower \cup Digit \cup {"-"}))>>)
\* the top-level labels with no word boundary after the ASCII ones
tldsExpNoBoundary ==
  FoldCase(Alt(<<punycode,
                 anyOf(asciiTLDs(TLDs) \o PseudoTLDs),
                 anyOf(unicodeTLDs(TLDs))>>))
tldsExp ==
  FoldCase(Alt(<<punycode,
                 Cat(<<anyOf(asciiTLDs(TLDs) \o PseudoTLDs), Bnd>>),
                 anyOf(unicodeTLDs(TLDs))>>))
site == Cat(<<domain, tldsExp>>)
hostName == Alt(<<site, ipAddr>>)
webURL == Cat(<<hostName, port, Opt(Alt(<<Cat(<<Lit("/"), pathCont>>), Lit("/")>>))>>)
email == Cat(<<Plus(Cls(Lower \cup Upper \cup Digit \cup {".", "_", "%", "-", "+"})),
               Lit("@"), site>>)
relaxedAlts == <<strictExp, webURL, email>>
relaxedExp == Alt(relaxedAlts)

---------------------------------------------------------------------------
(* regexp.Regexp: a compiled pattern and its matching mode *)

NoRegexp == [src |-> "nil", longest |-> FALSE]
MustCompile(src) == [src |-> src, longest |-> FALSE]
\* a build that leaves the matcher in leftmost-first mode
LongestOmitted(re) == re
Longest(re) == [re EXCEPT !.longest = TRUE]
\* the pattern a matcher was compiled from
Prog(re) == CASE re.src = "strictExp" -> strictExp
              [] re.src = "relaxedExp" -> relaxedExp

\* regexp.Compile on a pattern given as its tokens, from token k on, inside depth
\* open groups; last tells what a repetition operator would apply to: "none"
\* (nothing), "atom" (an operand) or "rep" (a repetition)
RECURSIVE Parse(_, _, _, _)
Parse(p, k, depth, last) ==
  IF k > Len(p) THEN (IF depth > 0 THEN "missing closing )" ELSE "nil")
  ELSE CASE p[k] \in {"(", "(?:"} -> Parse(p, k + 1, depth + 1, "none")
         [] p[k] = ")" -> IF depth = 0 THEN "unexpected )"
                          ELSE Parse(p, k + 1, depth - 1, "atom")
         [] p[k] = "|" -> Parse(p, k + 1, depth, "none")
         [] p[k] = "*" -> IF last = "none" THEN "missing argument to repetition operator"
                          ELSE IF last = "rep" THEN "invalid nested repetition operator"
                          ELSE Parse(p, k + 1, depth, "rep")
         [] p[k] \in {"(?i)", "(?-i)"} ->
              Parse(p, k + 1, depth, IF last = "rep" THEN "atom" ELSE last)
         [] OTHER -> Parse(p, k + 1, depth, "atom")

\* the error of regexp.Compile, "nil" if none
CompileErr(p) == Parse(p, 1, 0, "none")

\* StrictMatchingScheme(exp), exp given as its tokens
StrictMatchingScheme(exp) ==
  LET strictMatching == <<"(?i)", "(?:">> \o exp \o <<")", "(?-i)", "pathCont">>
      err == CompileErr(strictMatching)
  IN IF err # "nil" THEN [re |-> NoRegexp, err |-> err]
     ELSE [re |-> Longest(MustCompile("strictMatching")), err |-> "nil"]

Max(S) == CHOOSE x \in S : \A y \in S : y <= x

NoMatch == [start |-> -1, end |-> -1]

\* the leftmost match of prog in t that starts at offset s or later: the first a
\* backtracking search finds, or the longest when longest is set
RECURSIVE FindFrom(_, _, _, _)
FindFrom(prog, longest, t, s) ==
  IF s > Len(t) THEN NoMatch
  ELSE LET ends == Match(prog, t, s)
       IN IF ends = <<>> THEN FindFrom(prog, longest, t, s + 1)
          ELSE [start |-> s, end |-> IF longest THEN Max(Range(ends)) ELSE ends[1]]

\* One iteration of the loop of Regexp.FindAllStringIndex, from the loop
\* state sc = [pos, prevMatchEnd, done] and the spans delivered so far
FindAllStep(prog, longest, t, sc, spans) ==
  LET m == FindFrom(prog, longest, t, sc.pos)
  IN IF sc.pos > Len(t) \/ m = NoMatch
     THEN [sc |-> [sc EXCEPT !.done = TRUE], spans |-> spans]
     ELSE LET empty == m.end = sc.pos
              accept == ~(empty /\ m.start = sc.prevMatchEnd)
          IN [sc |-> [pos |-> IF empty THEN sc.pos + 1 ELSE m.end,
                      prevMatchEnd |-> m.end, done |-> FALSE],
              spans |-> IF accept THEN Append(spans, m) ELSE spans]

StartScan == [pos |-> 0, prevMatchEnd |-> -1, done |-> FALSE]

RECURSIVE FindAllLoop(_, _, _, _, _)
FindAllLoop(prog, longest, t, sc, spans) ==
  IF sc.done THEN spans
  ELSE LET r == FindAllStep(prog, longest, t, sc, spans)
       IN FindAllLoop(prog, longest, t, r.sc, r.spans)

\* Regexp.FindAllStringIndex(t, -1)
FindAllIndex(prog, longest, t) == FindAllLoop(prog, longest, t, StartScan, <<>>)

\* Regexp.FindAllString(t, -1)
FindAllString(prog, longest, t) ==
  LET sp == FindAllIndex(prog, longest, t)
  IN [k \in 1..Len(sp) |-> SubSeq(t, sp[k].start + 1, sp[k].end)]

---------------------------------------------------------------------------
(* Bounds of the model *)

NumGoroutines == 2      \* goroutines that call Strict() and Relaxed()
MaxCalls == 2           \* calls each of them makes
MaxPieces == 3          \* pieces in a text of SpecAlt
MaxDelims == 4          \* pieces after the lead in a text of SpecDelim
MaxTail == 3            \* pieces after the lead in a text of SpecPunct
MaxDigits == 3          \* digits of the numeral that SpecIPv4 varies
MaxTLDs == 3            \* entries of a TLD table of SpecTLD
MaxExpLen == 3          \* tokens of a scheme expression of SpecScheme

---------------------------------------------------------------------------
(* State *)

VARIABLES
  strictRe, relaxedRe,      \* the package variables: the cached matchers
  strictInit, relaxedInit,  \* their sync.Once: [done, m (the goroutine holding the mutex, 0: none)]
  calls,                    \* per goroutine: the call of Strict() or Relaxed() it is in
  built,                    \* per variant: how many times its build function has run
  text,                     \* the text searched
  stage,                    \* where the sequential caller of Strict() and Relaxed() is
  scan,                     \* the loop state of FindAllStringIndex
  found,                    \* the spans delivered by Strict() and by Relaxed()
  tldTable, split,          \* a TLD table and the loop of relaxedExp over it
  schemeExp, custom         \* the argument and the result of StrictMatchingScheme

onceVars == <<strictRe, relaxedRe, strictInit, relaxedInit>>
goVars == <<calls, built>>
matchVars == <<text, stage, scan, found>>
tldVars == <<tldTable, split>>
schemeVars == <<schemeExp, custom>>
vars == <<onceVars, goVars, matchVars, tldVars, schemeVars>>

Goroutines == 1..NumGoroutines
Variants == {"Strict", "Relaxed"}

NewOnce == [done |-> 0, m |-> 0]
NoCall == [fn |-> "none", pc |-> "idle", n |-> 0, ret |-> NoRegexp, instance |-> 0, waited |-> FALSE]
NoResult == [re |-> NoRegexp, err |-> "none"]

InitOnce ==
  /\ strictRe = NoRegexp /\ relaxedRe = NoRegexp
  /\ strictInit = NewOnce /\ relaxedInit = NewOnce
InitGo == calls = [g \in Goroutines |-> NoCall] /\ built = [v \in Variants |-> 0]
InitMatch ==
  /\ stage = "start" /\ scan = StartScan
  /\ found = [Strict |-> <<>>, Relaxed |-> <<>>]
InitTLD == tldTable = TLDs /\ split = NoSplit
InitScheme == schemeExp = <<>> /\ custom = NoResult

---------------------------------------------------------------------------
(* Strict() and Relaxed() under concurrent callers: sync.Once.Do, step by step *)

OnceOf(v) == IF v = "Strict" THEN strictInit ELSE relaxedInit
ReOf(v) == IF v = "Strict" THEN strictRe ELSE relaxedRe
ExpOf(v) == IF v = "Strict" THEN "strictExp" ELSE "relaxedExp"

\* a fast path that trusts the cached pointer instead of done
PointerIsSet(o, re) == re # NoRegexp
\* a slow path that does not look at done again once it holds the mutex
AlwaysRun(o) == TRUE
\* Once.Do's fast path: done is already set, f is not called
OnceIsDone(o, re) == o.done = 1
\* doSlow, with the mutex held: f runs only if done is still unset
OnceMustRun(o) == o.done = 0

SetOnce(v, o) ==
  /\ strictInit' = IF v = "Strict" THEN o ELSE strictInit
  /\ relaxedInit' = IF v = "Strict" THEN relaxedInit ELSE o
SetRe(v, re) ==
  /\ strictRe' = IF v = "Strict" THEN re ELSE strictRe
  /\ relaxedRe' = IF v = "Strict" THEN relaxedRe ELSE re
Goto(g, pc) == calls' = [calls EXCEPT ![g].pc = pc]

\* goroutine g calls Strict() or Relaxed()
Call(g, v) ==
  /\ calls[g].pc = "idle" /\ calls[g].n < MaxCalls
  /\ calls' = [calls EXCEPT ![g] = [fn |-> v, pc |-> "do", n |-> @.n + 1, ret |-> NoRegexp,
                                     instance |-> 0, waited |-> FALSE]]
  /\ UNCHANGED <<onceVars, built, matchVars, tldVars, schemeVars>>

\* Do: if o.done.Load() == 0 { o.doSlow(f) }
DoFast(g) ==
  /\ calls[g].pc = "do"
  /\ Goto(g, IF OnceIsDone(OnceOf(calls[g].fn), ReOf(calls[g].fn)) THEN "return" ELSE "lock")
  /\ UNCHANGED <<onceVars, built, matchVars, tldVars, schemeVars>>

\* doSlow: o.m.Lock()
DoLock(g) ==
  /\ calls[g].pc = "lock"
  /\ OnceOf(calls[g].fn).m = 0
  /\ SetOnce(calls[g].fn, [OnceOf(calls[g].fn) EXCEPT !.m = g])
  /\ Goto(g, "check")
  /\ UNCHANGED <<strictRe, relaxedRe, built, matchVars, tldVars, schemeVars>>

\* doSlow: if o.done.Load() == 0 { defer o.done.Store(1); f() }
DoCheck(g) ==
  /\ calls[g].pc = "check"
  /\ IF OnceMustRun(OnceOf(calls[g].fn))
     THEN Goto(g, "compile")
     ELSE calls' = [calls EXCEPT ![g].pc = "unlock", ![g].waited = TRUE]
  /\ UNCHANGED <<onceVars, built, matchVars, tldVars, schemeVars>>

\* f: strictRe = regexp.MustCompile(strictExp())
DoCompile(g) ==
  /\ calls[g].pc = "compile"
  /\ SetRe(calls[g].fn, MustCompile(ExpOf(calls[g].fn)))
  /\ built' = [built EXCEPT ![calls[g].fn] = @ + 1]
  /\ Goto(g, "longest")
  /\ UNCHANGED <<strictInit, relaxedInit, matchVars, tldVars, schemeVars>>

\* f: strictRe.Longest()
DoLongest(g) ==
  /\ calls[g].pc = "longest"
  /\ SetRe(calls[g].fn, Longest(ReOf(calls[g].fn)))
  /\ Goto(g, "store")
  /\ UNCHANGED <<strictInit, relaxedInit, built, matchVars, tldVars, schemeVars>>

\* the deferred o.done.Store(1)
DoStore(g) ==
  /\ calls[g].pc = "store"
  /\ SetOnce(calls[g].fn, [OnceOf(calls[g].fn) EXCEPT !.done = 1])
  /\ Goto(g, "unlock")
  /\ UNCHANGED <<strictRe, relaxedRe, built, matchVars, tldVars, schemeVars>>

\* the deferred o.m.Unlock()
DoUnlock(g) ==
  /\ calls[g].pc = "unlock"
  /\ SetOnce(calls[g].fn, [OnceOf(calls[g].fn) EXCEPT !.m = 0])
  /\ Goto(g, "return")
  /\ UNCHANGED <<strictRe, relaxedRe, built, matchVars, tldVars, schemeVars>>

\* return strictRe: the pointer read, and which build made what it points to
Return(g) ==
  /\ calls[g].pc = "return"
  /\ calls' = [calls EXCEPT ![g].pc = "idle", ![g].ret = ReOf(calls[g].fn),
                            ![g].instance = built[calls[g].fn]]
  /\ UNCHANGED <<onceVars, built, matchVars, tldVars, schemeVars>>

NextOnce ==
  \E g \in Goroutines :
    \/ \E v \in Variants : Call(g, v)
    \/ DoFast(g)
    \/ DoLock(g)
    \/ DoCheck(g)
    \/ DoCompile(g)
    \/ DoLongest(g)
    \/ DoStore(g)
    \/ DoUnlock(g)
    \/ Return(g)

InitSpec ==
  /\ InitOnce /\ InitGo /\ InitMatch /\ InitTLD /\ InitScheme
  /\ text = ""

Spec == InitSpec /\ [][NextOnce]_vars

---------------------------------------------------------------------------
(* One caller: Strict().FindAllStringIndex(text, -1), then the same of Relaxed() *)

\* Strict() or Relaxed() with no other goroutine about: Once.Do as a whole
CallVariant(v) ==
  IF OnceIsDone(OnceOf(v), ReOf(v)) \/ ~OnceMustRun(OnceOf(v))
  THEN UNCHANGED onceVars
  ELSE /\ SetRe(v, Longest(MustCompile(ExpOf(v))))
       /\ SetOnce(v, [done |-> 1, m |-> 0])

CallStrict ==
  /\ stage = "start"
  /\ CallVariant("Strict")
  /\ stage' = "Strict" /\ scan' = StartScan
  /\ UNCHANGED <<text, found, goVars, tldVars, schemeVars>>

CallRelaxed ==
  /\ stage = "Strict" /\ scan.done
  /\ CallVariant("Relaxed")
  /\ stage' = "Relaxed" /\ scan' = StartScan
  /\ UNCHANGED <<text, found, goVars, tldVars, schemeVars>>

\* one iteration of the loop of FindAllStringIndex
FindNext ==
  /\ stage \in Variants /\ ~scan.done
  /\ LET re == ReOf(stage)
         r == FindAllStep(Prog(re), re.longest, text, scan, found[stage])
     IN scan' = r.sc /\ found' = [found EXCEPT ![stage] = r.spans]
  /\ UNCHANGED <<onceVars, text, stage, goVars, tldVars, schemeVars>>

NextMatch ==
  \/ CallStrict
  \/ CallRelaxed
  \/ FindNext

\* both searches have returned
Searched == stage = "Relaxed" /\ scan.done

RECURSIVE Words(_, _)
\* the texts of at most n pieces of P
Words(P, n) ==
  IF n = 0 THEN {""}
  ELSE LET W == Words(P, n - 1) IN W \cup {w \o p : w \in W, p \in P}

InitText(T) ==
  /\ InitOnce /\ InitGo /\ InitMatch /\ InitTLD /\ InitScheme
  /\ text \in T

\* texts of hosts, schemes, "@", ":" and "/"
AltPieces == {"a.co", "a.tel", "a", "tel", ":", "@", "/"}
AltTexts == Words(AltPieces, MaxPieces)
SpecAlt == InitText(AltTexts) /\ [][NextMatch]_vars

\* a URL with a path of delimiters: after a scheme, and after a host and "/"
DelimLeads == {"tel:", "a.co/"}
DelimPieces == {"a", "(", ")", "(()", "[", "]"}
DelimTexts == {l \o w : l \in DelimLeads, w \in Words(DelimPieces, MaxDelims)}
SpecDelim == InitText(DelimTexts) /\ [][NextMatch]_vars

\* a URL in prose: a lead and a tail of path characters and punctuation
PunctLeads == {"tel:", "a.co"}
PunctPieces == {"a", "/", ".", ",", "'", "\"", "(a)"}
PunctTexts == {l \o w : l \in PunctLeads, w \in Words(PunctPieces, MaxTail)}
SpecPunct == InitText(PunctTexts) /\ [][NextMatch]_vars

\* "example." + t + c: t an ASCII top-level label, c a word character or "!"
WordChars == Lower \cup Upper \cup Digit \cup {"_"}
AsciiLabels == Range(asciiTLDs(TLDs)) \cup Range(PseudoTLDs)
LabelTexts == {"example." \o t \o c : t \in AsciiLabels, c \in WordChars \cup {"!"}}
SpecLabel == InitText(LabelTexts) /\ [][NextMatch]_vars

\* four numerals and three dots: one numeral of at most MaxDigits digits at
\* any of the four places, the same numeral of OtherOctets at the three others
OctetDigits == {"0", "1", "2", "5", "6"}
Numerals == Words(OctetDigits, MaxDigits) \ {""}
OtherOctets == {"1", "255"}
Dotted(o) == o[1] \o "." \o o[2] \o "." \o o[3] \o "." \o o[4]
Quads ==
  {[j \in 1..4 |-> IF j = k THEN n ELSE o] :
     k \in 1..4, n \in Numerals, o \in OtherOctets}
IPv4Texts == {Dotted(o) : o \in Quads}
SpecIPv4 == InitText(IPv4Texts) /\ [][NextMatch]_vars

---------------------------------------------------------------------------
(* relaxedExp's loop over a TLD table *)

IsASCIIOnly(s) == \A k \in 1..Len(s) : IsASCIIChar(Ch(s, k))

\* the invariant of the table: ASCII-only entries first
Ordered(tbl) ==
  \A i, j \in 1..Len(tbl) : IsASCIIOnly(tbl[i]) /\ ~IsASCIIOnly(tbl[j]) => i < j

TLDEntries == {"co", "uk", "c^", "^c", "^^"}
RECURSIVE Tables(_)
Tables(n) ==
  IF n = 0 THEN {<<>>}
  ELSE LET T == Tables(n - 1) IN T \cup {Append(tbl, e) : tbl \in T, e \in TLDEntries}
OrderedTables == {tbl \in Tables(MaxTLDs) : Ordered(tbl)}

Partition ==
  /\ ~split.done
  /\ split' = PartitionStep(tldTable, split)
  /\ UNCHANGED <<tldTable, onceVars, goVars, matchVars, schemeVars>>

NextTLD == Partition

InitSpecTLD ==
  /\ InitOnce /\ InitGo /\ InitMatch /\ InitScheme
  /\ text = ""
  /\ tldTable \in OrderedTables /\ split = NoSplit

SpecTLD == InitSpecTLD /\ [][NextTLD]_vars

---------------------------------------------------------------------------
(* StrictMatchingScheme *)

ExpTokens == {"a", "(", ")", "|", "*"}
RECURSIVE Exps(_)
Exps(n) ==
  IF n = 0 THEN {<<>>}
  ELSE LET E == Exps(n - 1) IN E \cup {Append(e, tok) : e \in E, tok \in ExpTokens}

CallStrictMatchingScheme ==
  /\ custom = NoResult
  /\ custom' = StrictMatchingScheme(schemeExp)
  /\ UNCHANGED <<schemeExp, onceVars, goVars, matchVars, tldVars>>

NextScheme == CallStrictMatchingScheme

InitSpecScheme ==
  /\ InitOnce /\ InitGo /\ InitMatch /\ InitTLD
  /\ text = ""
  /\ schemeExp \in Exps(MaxExpLen) /\ custom = NoResult

SpecScheme == InitSpecScheme /\ [][NextScheme]_vars

---------------------------------------------------------------------------
(* Properties of the lazy build, checked under Spec *)

\* C1: for each variant the build (compile, then switch to longest-match mode)
\* runs at most once, whatever the number of concurrent first callers and the
\* interleaving of Strict() and Relaxed() calls; and a build of one variant is
\* only ever run by a goroutine that is inside a call of that same variant,
\* so building one never builds the other.
C1_BuildAtMostOnce ==
  /\ [](\A v \in Variants : built[v] <= 1)
  /\ [][\A v \in Variants :
          built'[v] # built[v] =>
            \E g \in Goroutines :
              /\ calls[g].fn = v /\ calls[g].pc = "compile"
              /\ built' = [built EXCEPT ![v] = @ + 1]]_vars

\* two goroutines raced on the first call of Strict(): one built it, the other
\* found it built once it held the mutex; Relaxed was never built
C1_Witness ==
  /\ built["Strict"] = 1 /\ built["Relaxed"] = 0
  /\ \E g, h \in Goroutines :
       /\ g # h
       /\ calls[g].fn = "Strict" /\ calls[g].waited
       /\ calls[h].fn = "Strict" /\ ~calls[h].waited /\ calls[h].pc = "idle"

\* C2: every call of Strict() (resp. Relaxed()) that has returned delivered a
\* matcher that is not nil, was compiled from that variant's pattern, is
\* already in longest-match mode, and is the single instance of that variant;
\* the state in which the pointer is assigned but Longest() has not yet run is
\* never what a caller receives.
C2_ReturnsFinishedInstance ==
  \A g \in Goroutines :
    (calls[g].pc = "idle" /\ calls[g].n > 0) =>
      /\ calls[g].ret # NoRegexp
      /\ calls[g].ret.src = ExpOf(calls[g].fn)
      /\ calls[g].ret.longest
      /\ calls[g].instance = 1
      /\ calls[g].ret = ReOf(calls[g].fn)

\* a goroutine has returned from Relaxed() through the fast path while the
\* other one, which built the matcher, has returned too
C2_Witness ==
  \E g, h \in Goroutines :
    /\ g # h
    /\ calls[g].fn = "Relaxed" /\ calls[g].pc = "idle" /\ calls[g].n = MaxCalls
    /\ calls[h].fn = "Relaxed" /\ calls[h].pc = "idle" /\ calls[h].n > 0
    /\ calls[g].ret = calls[h].ret /\ calls[g].ret.longest
    /\ built["Relaxed"] = 1

---------------------------------------------------------------------------
(* StrictMatchingScheme, checked under SpecScheme *)

\* the expression alone is a well-formed pattern
WellFormed(exp) == CompileErr(exp) = "nil"

\* C3: StrictMatchingScheme fails whenever the scheme expression is not
\* itself a well-formed pattern: it then returns an error and no matcher; and
\* it never returns both a matcher and an error.
C3_MalformedSchemeFails ==
  custom # NoResult =>
    /\ ~WellFormed(schemeExp) => (custom.err # "nil" /\ custom.re = NoRegexp)
    /\ ~(custom.re # NoRegexp /\ custom.err # "nil")

---------------------------------------------------------------------------
(* The split of the TLD table, checked under SpecTLD *)

\* C10: for every table with the ASCII-only entries first, when the loop has
\* ended the ASCII side holds exactly the ASCII-only entries, the other side
\* exactly the entries that contain a non-ASCII character, and the two sides
\* concatenated are the table.
C10_PartitionExact ==
  split.done =>
    /\ split.ascii = SelectSeq(tldTable, IsASCIIOnly)
    /\ split.unicode = SelectSeq(tldTable, LAMBDA e : ~IsASCIIOnly(e))
    /\ split.ascii \o split.unicode = tldTable
---------------------------------------------------------------------------
(* Relaxed against its alternatives and against Strict, checked under SpecAlt *)

\* the orders in which three alternatives can be written
Orders == {p \in [1..3 -> 1..3] : \A i, j \in 1..3 : p[i] = p[j] => i = j}
Permuted(p) == Alt([k \in 1..3 |-> relaxedAlts[p[k]]])

\* every end offset at which some alternative of Relaxed matches from offset i
EndsOfAlternatives(t, i) ==
  UNION {Range(Match(relaxedAlts[k], t, i)) : k \in 1..3}

\* C4: the spans Relaxed finds do not depend on the order of its three
\* alternatives (Strict, web URL, email): the matcher built from any
\* permutation of them, in the mode Relaxed() leaves its matcher in, finds the
\* same spans, and every span Relaxed reports is the longest match of any
\* alternative at its start.
C4_OrderIndependent ==
  Searched =>
    /\ \A p \in Orders :
         FindAllIndex(Permuted(p), relaxedRe.longest, text) = found.Relaxed
    /\ \A k \in 1..Len(found.Relaxed) :
         found.Relaxed[k].end = Max(EndsOfAlternatives(text, found.Relaxed[k].start))

\* a text local@domain whose local part is itself a bare domain: both the
\* web-URL and the email alternative match at offset 0, and Relaxed has
\* reported the whole text as one span
C4_Witness ==
  /\ Searched /\ text = "a.co@a.co"
  /\ Match(webURL, text, 0) # <<>> /\ Match(email, text, 0) # <<>>
  /\ found.Relaxed = <<[start |-> 0, end |-> Len(text)]>>

Covers(r, s) == r.start <= s.start /\ s.end <= r.end

\* C5: every span the find-all search of Strict reports on a text is, on the
\* same text, reported by Relaxed too, as the same span or inside a longer one.
C5_RelaxedCoversStrict ==
  Searched =>
    \A k \in 1..Len(found.Strict) :
      \E j \in 1..Len(found.Relaxed) : Covers(found.Relaxed[j], found.Strict[k])
---------------------------------------------------------------------------
(* Delimiters in the path, checked under SpecDelim *)

Count(s, k, c) == Cardinality({j \in 1..k : Ch(s, j) = c})
\* how many groups of one kind are open after the first k characters of s
Depth(s, k, open, close) == Count(s, k, open) - Count(s, k, close)

\* one kind of delimiter is balanced in s and nested at most one level deep
BalancedKind(s, open, close) ==
  /\ \A k \in 0..Len(s) : Depth(s, k, open, close) \in {0, 1, 2}
  /\ Depth(s, Len(s), open, close) = 0

Balanced(s) ==
  /\ BalancedKind(s, "(", ")")
  /\ BalancedKind(s, "[", "]")
  /\ BalancedKind(s, "{", "}")

SpanText(sp) == SubSeq(text, sp.start + 1, sp.end)
AllSpans == Range(found.Strict) \cup Range(found.Relaxed)

\* the span has a path: it starts with a scheme, or holds a "/"
HasPath(sp) ==
  \/ Match(FoldCase(schemes), text, sp.start) # <<>>
  \/ \E j \in 1..Len(SpanText(sp)) : Ch(SpanText(sp), j) = "/"

\* a group the path grammar accepts starts at offset i
GroupAt(i) == Match(Alt(wellAll), text, i) # <<>>

\* C6: in every span Strict or Relaxed finds, "()", "[]" and "{}" are each
\* balanced and nested at most one level deep, so an opening delimiter without
\* its closer and a closing delimiter without its opener are never in a span;
\* and a balanced group of the path is matched whole: no span with a path
\* stops right before a group that the path grammar accepts.
C6_BalancedDelimiters ==
  Searched =>
    \A sp \in AllSpans :
      /\ Balanced(SpanText(sp))
      /\ HasPath(sp) => ~GroupAt(sp.end)

\* a URL whose path is a group with one nested pair, followed by a closing
\* parenthesis without opener: the span holds the group and stops before it
C6_Witness ==
  /\ Searched /\ text = "tel:(()))"
  /\ found.Strict = <<[start |-> 0, end |-> 8]>>
  /\ found.Relaxed = found.Strict
  /\ Depth(text, 6, "(", ")") = 2

---------------------------------------------------------------------------
(* Punctuation after a URL, checked under SpecPunct *)

Closers == {")", "]", "}"}
LastChar(sp) == Ch(text, sp.end)

\* the span's last character closes a balanced group that lies in the span
EndsWithGroup(sp) ==
  \E j \in sp.start..(sp.end - 1) : sp.end \in Range(Match(Alt(wellAll), text, j))

\* C7: every span Strict finds ends with a character of the end-of-segment
\* class or with the closing delimiter of a balanced group, and no span that
\* Strict or Relaxed finds ends with a period, a comma or a quote.
C7_NoTrailingPunctuation ==
  Searched =>
    /\ \A sp \in Range(found.Strict) :
         \/ LastChar(sp) \in endIChar
         \/ LastChar(sp) \in Closers /\ EndsWithGroup(sp)
    /\ \A sp \in AllSpans : LastChar(sp) \notin {".", ",", "'", "\""}

\* a URL that ends with a group and is followed by a period: Strict and
\* Relaxed both stop after the group, before the period
C7_Witness ==
  /\ Searched /\ text = "tel:a(a)."
  /\ found.Strict = <<[start |-> 0, end |-> 8]>>
  /\ found.Relaxed = found.Strict
  /\ EndsWithGroup(found.Strict[1])
---------------------------------------------------------------------------
(* The word boundary after an ASCII top-level label, checked under SpecLabel *)

\* the text is "example." + t + c
LabelOf(t) == SubSeq(t, 9, Len(t) - 1)
EndOfLabel(t) == Len(t) - 1

\* C8: for every ASCII top-level label t, on "example." + t + c with c a
\* word character Relaxed reports no match that ends exactly at the end of t,
\* and on "example." + t + "!" it reports the match from "example" through
\* the end of t.
C8_BoundaryAfterLabel ==
  Searched =>
    IF Ch(text, Len(text)) \in WordChars
    THEN \A sp \in Range(found.Relaxed) : sp.end # EndOfLabel(text)
    ELSE [start |-> 0, end |-> EndOfLabel(text)] \in Range(found.Relaxed)

\* "example.co" before a letter that does not make a longer label: nothing
\* is found; the same before "!" is found
C8_Witness ==
  /\ Searched
  /\ LabelOf(text) = "co"
  /\ Ch(text, Len(text)) = "x"
  /\ found.Relaxed = <<>>
  /\ FindAllString(relaxedExp, TRUE, "example.co!") = <<"example.co">>

---------------------------------------------------------------------------
(* IPv4 literals, checked under SpecIPv4 *)

Dots(t) == {k \in 1..Len(t) : Ch(t, k) = "."}
Min(S) == CHOOSE x \in S : \A y \in S : x <= y
\* the four numerals of a text of IPv4Texts
Octets(t) ==
  LET d1 == Min(Dots(t))
      d3 == Max(Dots(t))
      d2 == CHOOSE k \in Dots(t) : k # d1 /\ k # d3
  IN <<SubSeq(t, 1, d1 - 1), SubSeq(t, d1 + 1, d2 - 1),
       SubSeq(t, d2 + 1, d3 - 1), SubSeq(t, d3 + 1, Len(t))>>

DigitValue(c) == CHOOSE d \in 0..9 : Ch("0123456789", d + 1) = c
RECURSIVE Value(_)
Value(s) ==
  IF Len(s) = 1 THEN DigitValue(s)
  ELSE 10 * Value(SubSeq(s, 1, Len(s) - 1)) + DigitValue(Ch(s, Len(s)))

InRange(s) == Value(s) <= 255
NoLeadingZero(s) == Len(s) = 1 \/ Ch(s, 1) # "0"
WholeText == <<[start |-> 0, end |-> Len(text)]>>

\* C9 as stated: Relaxed matches the whole text when every octet is in
\* 0..255, and reports no match at all when any octet exceeds 255.
C9_OctetsInRange ==
  Searched =>
    LET o == Octets(text)
    IN IF \A k \in 1..4 : InRange(o[k]) THEN found.Relaxed = WholeText
       ELSE found.Relaxed = <<>>

\* C9, amended: Relaxed matches the whole text when every octet is in 0..255
\* and is written without leading zeros; it reports no match at all, neither
\* the whole text nor a part of it, when any octet exceeds 255, and also when
\* an octet is written with a leading zero.
C9_OctetsInRangeNoLeadingZero ==
  Searched =>
    LET o == Octets(text)
    IN IF \A k \in 1..4 : InRange(o[k]) /\ NoLeadingZero(o[k])
       THEN found.Relaxed = WholeText
       ELSE found.Relaxed = <<>>

\* 255.255.255.255 has been found whole
C9_Witness ==
  /\ Searched /\ text = "255.255.255.255"
  /\ found.Relaxed = WholeText
  /\ FindAllString(relaxedExp, TRUE, "256.1.1.1") = <<>>
  /\ FindAllString(relaxedExp, TRUE, "01.1.1.1") = <<>>
====
